---- MODULE Spec2Model ----
(***************************************************************************)
(* Memory Lane: the timeline / memory services over the relational store   *)
(* (tables timeline and memory) and the blob store (bucket memory-images). *)
(* Every request is a sequence of store round trips; requests interleave   *)
(* at the round trips (each await of the services is one step).            *)
(***************************************************************************)
EXTENDS Integers, Sequences, FiniteSets, TLC

(* ------------------------------ bounds --------------------------------- *)
\* total number of requests started in one behaviour
MaxOps == 4
\* total number of images uploaded in one behaviour
MaxUploads == 2
\* longest name handed to generateSlug on its own
MaxNameLen == 3
\* most memory rows of the timeline that getByTimelineId pages through
MaxRows == 12
\* the dates of those rows repeat with this period
MaxDated == 3
MaxFileNameLen == 3
MaxStoreTimelines == 2
MaxStoreMemories == 2

\* the slots of the requests in flight at one time
Procs == {1, 2}

(* --------------------------- input domains ----------------------------- *)
\* strings are sequences of one-character strings
Names == { <<"a">>, <<"A", " ">> }
\* explicit slugs a caller may pass to TimelineService.update
SlugInputs == { <<"a">>, <<"a", "-", "1">> }

\* the characters of the names handed to generateSlug on its own
NameChars == {"a", "B", "1", " ", "-", "!"}
\* all names of at most MaxNameLen characters
NameInputs == UNION {[1..n -> NameChars] : n \in 0..MaxNameLen}

\* an optional input field that was not supplied
Absent == <<"absent">>
AbsentId == -1
\* memory.image_key of a row created without an image (null)
NoKey == 0
\* an id that names no row (a uuid never issued by the store)
NoId == 0
\* a numeric option that was not supplied (undefined is falsy, as 0 is)
NoNum == 0
\* the options {limit?, offset?} callers pass to the paginated reads
Limits == {NoNum, 1, 2}
Offsets == {NoNum, 1}
\* `(options.limit || 10)`: the page size of a range without a limit
DefaultPageSize == 10
\* the values of memory.date_of_event
Dates == {1, 2}
\* the access tokens of the callers; NoToken is ctx.accessToken undefined
Tokens == {1, 2}
NoToken == 0

(* ------------------------- string functions ---------------------------- *)
Digits == <<"0", "1", "2", "3", "4", "5", "6", "7", "8", "9">>

RECURSIVE IntToStr(_)
\* `${counter}` : decimal rendering of a non-negative integer
IntToStr(n) ==
  IF n < 10 THEN <<Digits[n + 1]>>
  ELSE IntToStr(n \div 10) \o <<Digits[(n % 10) + 1]>>

\* String.prototype.toLowerCase on one character
toLowerCase(c) ==
  CASE c = "A" -> "a"
    [] c = "B" -> "b"
    [] OTHER -> c

IsSpace(c) == c = " "
\* the character class [a-z0-9]
IsAlnum(c) == c \in {"a", "b", "0", "1", "2", "3", "4", "5", "6", "7", "8", "9"}

RECURSIVE DropWhileHead(_, _)
DropWhileHead(s, isSpaceCls) ==
  IF s = <<>> THEN s
  ELSE IF (IF isSpaceCls THEN IsSpace(Head(s)) ELSE Head(s) = "-")
       THEN DropWhileHead(Tail(s), isSpaceCls)
       ELSE s

RECURSIVE DropWhileLast(_, _)
DropWhileLast(s, isSpaceCls) ==
  IF s = <<>> THEN s
  ELSE IF (IF isSpaceCls THEN IsSpace(s[Len(s)]) ELSE s[Len(s)] = "-")
       THEN DropWhileLast(SubSeq(s, 1, Len(s) - 1), isSpaceCls)
       ELSE s

\* String.prototype.trim
trim(s) == DropWhileLast(DropWhileHead(s, TRUE), TRUE)

RECURSIVE ReplaceRuns(_, _)
\* .replace(/[^a-z0-9]+/g, '-') : every maximal run of other characters
\* becomes one hyphen; inRun says the previous character was in a run
ReplaceRuns(s, inRun) ==
  IF s = <<>> THEN <<>>
  ELSE IF IsAlnum(Head(s)) THEN <<Head(s)>> \o ReplaceRuns(Tail(s), FALSE)
  ELSE IF inRun THEN ReplaceRuns(Tail(s), TRUE)
  ELSE <<"-">> \o ReplaceRuns(Tail(s), TRUE)

\* .replace(/^-+|-+$/g, '')
StripHyphens(s) == DropWhileLast(DropWhileHead(s, FALSE), FALSE)

\* TimelineService.generateSlug
generateSlug(name) ==
  StripHyphens(ReplaceRuns(trim([i \in 1..Len(name) |-> toLowerCase(name[i])]), FALSE))

\* a candidate that ignores the counter
SuffixedSlug_NoCounter(name, counter) == generateSlug(name)

\* `${generateSlug(baseName)}-${counter}`
SuffixedSlug(name, counter) == generateSlug(name) \o <<"-">> \o IntToStr(counter)

(* ------------------------------- state --------------------------------- *)
VARIABLES
  timeline,   \* table timeline: live row id -> [name, slug, description]
  memory,     \* table memory: live row id -> [timeline_id, image_key], and
              \* date_of_event where the paginated read is modelled
  blobs,      \* bucket memory-images: the set of stored object keys
  nextTid,    \* ids the store has issued for timeline rows are 1..nextTid-1
  nextMid,    \* ids the store has issued for memory rows are 1..nextMid-1
  nextKey,    \* keys issued by uploads are 1..nextKey-1
  started,    \* number of requests started so far
  pc,         \* per request slot: the await it is suspended at
  loc         \* per request slot: arguments, locals and outcome of the request

vars == <<timeline, memory, blobs, nextTid, nextMid, nextKey, started, pc, loc>>
store == <<timeline, memory, blobs, nextTid, nextMid, nextKey>>

\* locals of an idle slot
InitLoc ==
  [ kind |-> "none",      \* which service method runs
    id |-> NoId,          \* the id argument
    name |-> Absent, slug |-> Absent, desc |-> 0,   \* timeline input fields
    key |-> NoKey, tid |-> AbsentId,                \* memory input fields
    counter |-> 0,        \* generateUniqueSlug: counter
    old |-> NoKey,        \* image_key read before a removal
    todo |-> {},          \* deleteByTimelineId: rows not yet processed
    cur |-> NoId,         \* deleteByTimelineId: row being processed
    cascade |-> FALSE,    \* delete: deleteByTimelineId was invoked
    seen |-> "unchecked", \* delete: what the check returned, "none" or "some" rows
    listed |-> {},        \* deleteByTimelineId: ids of the rows its select returned
    tried |-> {},         \* deleteByTimelineId: ids whose row deletion was issued
    result |-> "none",    \* "ok" or the error thrown
    ret |-> NoId,         \* id of the row returned on success
    retKey |-> NoKey,     \* image_key of the row returned on success
    stFail |-> FALSE,     \* a storage removal of this request failed
    removed |-> {},       \* keys whose removal this request issued successfully
    dbErr |-> FALSE,      \* the request threw because a database call returned an error
    rowFail |-> FALSE,    \* a memory row deletion of the cascade failed
    nDeleted |-> 0,       \* memory rows this request deleted
    probedFree |-> FALSE, \* create: the probe saw a live row set without the slug
    found |-> FALSE,      \* memory delete: the row was live when it was fetched
    limit |-> NoNum, offset |-> NoNum,              \* pagination options
    page |-> << >>,       \* reads: ids of the rows returned, in order
    counts |-> << >>,     \* getAllWithMemoryCounts: timeline id -> memory_count
    nq |-> 0,             \* getAllWithMemoryCounts: queries issued against memory
    via |-> "none",       \* the router or endpoint the request came through
    caller |-> NoToken,   \* the access token the request carried
    bearers |-> {},       \* the tokens attached to the store calls of the request
    input |-> << >>,      \* create: the object the caller passed
    now |-> 0,            \* generateFilePath: Date.now()
    rand |-> << >>,       \* generateFilePath: the random string
    path |-> << >>,       \* generateFilePath: the key returned; delete: relativePath
    host |-> << >>,       \* NEXT_PUBLIC_SUPABASE_URL of the service's client
    target |-> << >>,     \* UploadService.delete: the stored key the caller means
    url |-> << >>,        \* UploadService.upload: the publicUrl returned
    called |-> FALSE,     \* upload endpoint: UploadService.upload was called
    status |-> 0,         \* upload endpoint: HTTP status of the response
    countErr |-> FALSE,   \* per-row counts: a count query returned an error
    row |-> << >>         \* getById: the row returned
  ]

Init ==
  /\ timeline = << >>
  /\ memory = << >>
  /\ blobs = {}
  /\ nextTid = 1
  /\ nextMid = 1
  /\ nextKey = 1
  /\ started = 0
  /\ pc = [p \in Procs |-> "idle"]
  /\ loc = [p \in Procs |-> InitLoc]

(* --------------------------- store semantics --------------------------- *)
\* remove the entry k from a table
DropRow(tbl, k) == [x \in DOMAIN tbl \ {k} |-> tbl[x]]
\* add or replace the entry k of a table
PutRow(tbl, k, row) == [x \in DOMAIN tbl \cup {k} |-> IF x = k THEN row ELSE tbl[x]]

\* the timeline table without the UNIQUE constraint on slug
SlugUniqueOk_NoConstraint(rows, self, slug) == TRUE

\* timeline.slug UNIQUE : may a row other than self carry this slug?
SlugUniqueOk(rows, self, slug) ==
  \A t \in DOMAIN rows : t # self => rows[t].slug # slug

\* the memory table without the foreign key (insert / update side)
FkParentOk_NoConstraint(rows, tid) == TRUE

\* memory_timeline_id_fkey on insert / update of a memory row
FkParentOk(rows, tid) == tid \in DOMAIN rows

\* the memory table without the foreign key (delete side)
FkNoChildren_NoConstraint(mrows, tid) == TRUE

\* memory_timeline_id_fkey on delete of a timeline row (no ON DELETE action)
FkNoChildren(mrows, tid) ==
  \A m \in DOMAIN mrows : mrows[m].timeline_id # tid

\* rows of memory with .eq('timeline_id', tid)
MemoriesOf(mrows, tid) == {m \in DOMAIN mrows : mrows[m].timeline_id = tid}

\* rows of timeline with .eq('slug', slug)
RowsWithSlug(rows, slug) == {t \in DOMAIN rows : rows[t].slug = slug}

RECURSIVE OrderDesc(_, _)
\* .order(column, {ascending: false}): the ids by descending key; rows with
\* equal keys come in id order
OrderDesc(ids, key) ==
  IF ids = {} THEN << >>
  ELSE LET top == CHOOSE i \in ids :
                    \A j \in ids : key[j] < key[i] \/ (key[j] = key[i] /\ i <= j)
       IN  <<top>> \o OrderDesc(ids \ {top}, key)

\* the rows a query returns after `if (limit) query.limit(limit)` and
\* `if (offset) query.range(offset, offset + (limit || 10) - 1)`
PageWindow(sorted, limit, offset) ==
  LET from == IF offset # NoNum THEN offset ELSE 0
      size == IF offset # NoNum
              THEN (IF limit # NoNum THEN limit ELSE DefaultPageSize)
              ELSE IF limit # NoNum THEN limit ELSE Len(sorted)
      to   == IF from + size < Len(sorted) THEN from + size ELSE Len(sorted)
  IN  SubSeq(sorted, from + 1, to)

\* timeline rows .order('created_at', {ascending: false}): ids are issued in
\* creation order
TimelinesNewestFirst(rows) == OrderDesc(DOMAIN rows, [t \in DOMAIN rows |-> t])

\* rows of memory with .in('timeline_id', timelineIds)
MemoriesIn(mrows, tids) == {m \in DOMAIN mrows : mrows[m].timeline_id \in tids}

\* continue slot p at the await `at` with locals l
Goto(p, at, l) ==
  /\ pc' = [pc EXCEPT ![p] = at]
  /\ loc' = [loc EXCEPT ![p] = l]

\* throw new Error(outcome) out of the request
Finish(p, l, outcome) == Goto(p, "done", [l EXCEPT !.result = outcome])

\* if (error) throw new Error(`${outcome}: ${error.message}`)
FinishDbError(p, l, outcome) ==
  Goto(p, "done", [l EXCEPT !.result = outcome, !.dbErr = TRUE])

\* memory?.image_key of a fetched row (null when there is no row)
RowKey(rows, id) == IF id \in DOMAIN rows THEN rows[id].image_key ELSE NoKey

(* ------------------------- request scheduling -------------------------- *)
\* a slot is free once the response of its previous request was delivered
Free(p) == pc[p] \in {"idle", "done"}

\* an arriving request takes the lowest free slot (slots are interchangeable)
CanStart(p) ==
  /\ Free(p) /\ started < MaxOps
  /\ \A q \in Procs : q < p => ~Free(q)

\* a request runs from its call up to and including its first round trip
Begin(p) == CanStart(p) /\ started' = started + 1

\* a suspended request runs from the await `at` through its next round trip
Resume(p, at) == pc[p] = at /\ started' = started

(* ------------------------ TimelineService.create ----------------------- *)
\* one iteration of the while loop of generateUniqueSlug: the probe
\* .select('id').eq('slug', slug).single(); its error is not inspected
ProbeSlug(p, l) ==
  /\ \E fault \in BOOLEAN :
       LET existing == ~fault /\ Cardinality(RowsWithSlug(timeline, l.slug)) = 1
       IN  IF ~existing
           THEN Goto(p, "tc_insert",
                     [l EXCEPT !.probedFree = RowsWithSlug(timeline, l.slug) = {}])
           ELSE /\ l.counter < MaxOps + 2
                /\ Goto(p, "tc_probe",
                        [l EXCEPT !.slug = SuffixedSlug(l.name, l.counter),
                                  !.counter = l.counter + 1])
  /\ UNCHANGED store

\* a generateUniqueSlug whose counter starts at 0
TimelineCreate_Start_FromZero(p) ==
  /\ Begin(p)
  /\ \E n \in Names :
       ProbeSlug(p, [InitLoc EXCEPT !.kind = "timeline.create", !.name = n, !.desc = 1,
                                    !.slug = generateSlug(n), !.counter = 0])

\* create(input): generateUniqueSlug(input.name) up to its first probe
TimelineCreate_Start(p) ==
  /\ Begin(p)
  /\ \E n \in Names :
       ProbeSlug(p, [InitLoc EXCEPT !.kind = "timeline.create", !.name = n, !.desc = 1,
                                    !.slug = generateSlug(n), !.counter = 1])

\* a further iteration of the while loop of generateUniqueSlug
TimelineCreate_Probe(p) == Resume(p, "tc_probe") /\ ProbeSlug(p, loc[p])

\* an insert that overwrites on conflict instead of failing (upsert)
TimelineCreate_Insert_Upsert(p) ==
  /\ Resume(p, "tc_insert")
  /\ timeline' = PutRow(timeline, nextTid,
                        [name |-> loc[p].name, slug |-> loc[p].slug,
                         description |-> loc[p].desc])
  /\ nextTid' = nextTid + 1
  /\ Goto(p, "done", [loc[p] EXCEPT !.result = "ok", !.ret = nextTid])
  /\ UNCHANGED <<memory, blobs, nextMid, nextKey>>

\* .insert({name, description, slug}).select().single()
TimelineCreate_Insert(p) ==
  /\ Resume(p, "tc_insert")
  /\ \E fault \in BOOLEAN :
       IF fault
       THEN /\ FinishDbError(p, loc[p], "Failed to create timeline")
            /\ UNCHANGED store
       ELSE IF ~SlugUniqueOk(timeline, NoId, loc[p].slug)
       THEN /\ FinishDbError(p, loc[p], "Failed to create timeline: duplicate key")
            /\ UNCHANGED store
       ELSE /\ timeline' = PutRow(timeline, nextTid,
                                  [name |-> loc[p].name, slug |-> loc[p].slug,
                                   description |-> loc[p].desc])
            /\ nextTid' = nextTid + 1
            /\ Goto(p, "done", [loc[p] EXCEPT !.result = "ok", !.ret = nextTid])
            /\ UNCHANGED <<memory, blobs, nextMid, nextKey>>

(* ------------------------ TimelineService.update ----------------------- *)
\* the partial inputs {name?, description?, slug?} callers pass: a new
\* slug, or a new name and description
UpdateTimelineInputs ==
  { [name |-> Absent, slug |-> s, desc |-> 0] : s \in SlugInputs }
  \cup { [name |-> <<"b">>, slug |-> Absent, desc |-> 2] }

\* the row after .update(input): supplied fields replace, others stay
ApplyTimelineInput(row, l) ==
  [ row EXCEPT !.name = IF l.name # Absent THEN l.name ELSE @,
               !.slug = IF l.slug # Absent THEN l.slug ELSE @,
               !.description = IF l.desc # 0 THEN l.desc ELSE @ ]

\* .update(input).eq('id', id).select().single()
WriteTimeline(p, l) ==
  \E fault \in BOOLEAN :
    IF fault \/ l.id \notin DOMAIN timeline
    THEN /\ FinishDbError(p, l, "Failed to update timeline")
         /\ UNCHANGED store
    ELSE LET row == ApplyTimelineInput(timeline[l.id], l)
         IN  IF ~SlugUniqueOk(timeline, l.id, row.slug)
             THEN /\ FinishDbError(p, l, "Failed to update timeline: duplicate key")
                  /\ UNCHANGED store
             ELSE /\ timeline' = PutRow(timeline, l.id, row)
                  /\ Goto(p, "done", [l EXCEPT !.result = "ok", !.ret = l.id])
                  /\ UNCHANGED <<memory, blobs, nextTid, nextMid, nextKey>>

\* if (input.slug): .select('id').eq('slug', input.slug).neq('id', id).single();
\* its error is not inspected
CheckSlug(p, l) ==
  /\ \E fault \in BOOLEAN :
       LET existing == ~fault /\
             Cardinality(RowsWithSlug(timeline, l.slug) \ {l.id}) = 1
       IN  IF existing
           THEN Finish(p, l, "A timeline with this slug already exists")
           ELSE Goto(p, "tu_write", l)
  /\ UNCHANGED store

\* update(id, input) up to its first round trip: the slug check when a slug
\* is supplied, the row update otherwise
TimelineUpdate_Start(p) ==
  /\ Begin(p)
  /\ \E id \in 1..(nextTid - 1), in \in UpdateTimelineInputs :
       LET l == [InitLoc EXCEPT !.kind = "timeline.update", !.id = id,
                                !.name = in.name, !.slug = in.slug, !.desc = in.desc]
       IN  IF in.slug # Absent THEN CheckSlug(p, l) ELSE WriteTimeline(p, l)

\* the row update after the slug check
TimelineUpdate_Write(p) == Resume(p, "tu_write") /\ WriteTimeline(p, loc[p])

(* ------------------------------ storage -------------------------------- *)
\* the upload endpoint stored a new object under a fresh key
Upload ==
  /\ nextKey <= MaxUploads
  /\ blobs' = blobs \cup {nextKey}
  /\ nextKey' = nextKey + 1
  /\ UNCHANGED <<timeline, memory, nextTid, nextMid, started, pc, loc>>

\* storage.from('memory-images').remove([key]) without error: the object is
\* gone afterwards (removing a missing object is no error)
StorageRemove(objs, key) == objs \ {key}

\* the removal of l.old; a storage error is logged and the request goes on
RemoveThenGoto(p, l, at) ==
  /\ \E storageError \in BOOLEAN :
       IF storageError
       THEN /\ Goto(p, at, [l EXCEPT !.stFail = TRUE])
            /\ blobs' = blobs
       ELSE /\ Goto(p, at, [l EXCEPT !.removed = @ \cup {l.old}])
            /\ blobs' = StorageRemove(blobs, l.old)
  /\ UNCHANGED <<timeline, memory, nextTid, nextMid, nextKey>>

(* ------------------------- MemoryService.create ------------------------ *)
\* .insert({... image_key, timeline_id}).select().single() : one round trip
MemoryCreate(p) ==
  /\ Begin(p)
  /\ \E tid \in 0..(nextTid - 1), key \in blobs \cup {NoKey}, fault \in BOOLEAN :
       LET l == [InitLoc EXCEPT !.kind = "memory.create", !.tid = tid, !.key = key]
       IN  IF fault \/ ~FkParentOk(timeline, tid)
           THEN /\ FinishDbError(p, l, "Failed to create memory")
                /\ UNCHANGED store
           ELSE /\ memory' = PutRow(memory, nextMid, [timeline_id |-> tid, image_key |-> key])
                /\ nextMid' = nextMid + 1
                /\ Goto(p, "done", [l EXCEPT !.result = "ok", !.ret = nextMid, !.retKey = key])
                /\ UNCHANGED <<timeline, blobs, nextTid, nextKey>>

(* ------------------------- MemoryService.update ------------------------ *)
\* the row after .update(input): supplied fields replace, others stay
ApplyMemoryInput(row, l) ==
  [ row EXCEPT !.timeline_id = IF l.tid # AbsentId THEN l.tid ELSE @,
               !.image_key = IF l.key # NoKey THEN l.key ELSE @ ]

\* .update(input).eq('id', id).select().single()
WriteMemory(p, l) ==
  \E fault \in BOOLEAN :
    IF \/ fault
       \/ l.id \notin DOMAIN memory
       \/ (l.tid # AbsentId /\ ~FkParentOk(timeline, l.tid))
    THEN /\ FinishDbError(p, l, "Failed to update memory")
         /\ UNCHANGED store
    ELSE LET row == ApplyMemoryInput(memory[l.id], l)
         IN  /\ memory' = PutRow(memory, l.id, row)
             /\ Goto(p, "done", [l EXCEPT !.result = "ok", !.ret = l.id,
                                          !.retKey = row.image_key])
             /\ UNCHANGED <<timeline, blobs, nextTid, nextMid, nextKey>>

\* if (input.image_key): .select('image_key').eq('id', id).single(); the
\* error is not inspected, existingMemory is then null
ReadImageKey(p, l) ==
  /\ \E fault \in BOOLEAN :
       LET existing == IF fault THEN NoKey ELSE RowKey(memory, l.id)
       IN  Goto(p, IF existing # NoKey /\ existing # l.key THEN "mu_remove" ELSE "mu_write",
                [l EXCEPT !.old = existing])
  /\ UNCHANGED store

\* update(id, input) up to its first round trip: the read of the stored
\* image_key when input.image_key is supplied, the row update otherwise;
\* the partial input supplies a new image_key or a new timeline_id
MemoryUpdate_Start(p) ==
  /\ Begin(p)
  /\ \E id \in 0..(nextMid - 1), key \in blobs \cup {NoKey},
        tid \in {AbsentId} \cup 1..(nextTid - 1) :
       /\ (key # NoKey) # (tid # AbsentId)
       /\ LET l == [InitLoc EXCEPT !.kind = "memory.update", !.id = id,
                                   !.key = key, !.tid = tid]
          IN  IF key # NoKey THEN ReadImageKey(p, l) ELSE WriteMemory(p, l)

\* an update that throws when the removal of the old image fails
MemoryUpdate_Remove_Throws(p) ==
  /\ Resume(p, "mu_remove")
  /\ \E storageError \in BOOLEAN :
       IF storageError
       THEN /\ Goto(p, "done", [loc[p] EXCEPT !.stFail = TRUE,
                       !.result = "Failed to delete old image from storage"])
            /\ blobs' = blobs
       ELSE /\ Goto(p, "mu_write", [loc[p] EXCEPT !.removed = @ \cup {loc[p].old}])
            /\ blobs' = StorageRemove(blobs, loc[p].old)
  /\ UNCHANGED <<timeline, memory, nextTid, nextMid, nextKey>>

\* storage.remove([existingMemory.image_key]); a storage error is logged
MemoryUpdate_Remove(p) == Resume(p, "mu_remove") /\ RemoveThenGoto(p, loc[p], "mu_write")

\* the row update, after the read and the removal (if any)
MemoryUpdate_Write(p) == Resume(p, "mu_write") /\ WriteMemory(p, loc[p])

(* ------------------------- MemoryService.delete ------------------------ *)
\* a fetch with .maybeSingle(): no row is no error
FetchSingleOk_MaybeSingle(rows, id) == TRUE

\* .select('image_key').eq('id', id).single(): no row is an error
FetchSingleOk(rows, id) == id \in DOMAIN rows

\* delete(id) up to its first round trip, the fetch of the row
MemoryDelete_Fetch(p) ==
  /\ Begin(p)
  /\ \E id \in 0..(nextMid - 1), fault \in BOOLEAN :
       LET l == [InitLoc EXCEPT !.kind = "memory.delete", !.id = id,
                                !.found = id \in DOMAIN memory]
       IN  IF fault \/ ~FetchSingleOk(memory, id)
           THEN FinishDbError(p, l, "Failed to fetch memory")
           ELSE Goto(p, IF RowKey(memory, id) # NoKey THEN "md_remove" ELSE "md_row",
                     [l EXCEPT !.old = RowKey(memory, id)])
  /\ UNCHANGED store

\* a delete that throws when the removal of the image fails
MemoryDelete_Remove_Throws(p) ==
  /\ Resume(p, "md_remove")
  /\ \E storageError \in BOOLEAN :
       IF storageError
       THEN /\ Goto(p, "done", [loc[p] EXCEPT !.stFail = TRUE,
                       !.result = "Failed to delete image from storage"])
            /\ blobs' = blobs
       ELSE /\ Goto(p, "md_row", [loc[p] EXCEPT !.removed = @ \cup {loc[p].old}])
            /\ blobs' = StorageRemove(blobs, loc[p].old)
  /\ UNCHANGED <<timeline, memory, nextTid, nextMid, nextKey>>

\* storage.remove([memory.image_key]); a storage error is logged
MemoryDelete_Remove(p) == Resume(p, "md_remove") /\ RemoveThenGoto(p, loc[p], "md_row")

\* .delete().eq('id', id)
MemoryDelete_Row(p) ==
  /\ Resume(p, "md_row")
  /\ \E fault \in BOOLEAN :
       IF fault
       THEN /\ FinishDbError(p, loc[p], "Failed to delete memory")
            /\ UNCHANGED store
       ELSE /\ memory' = DropRow(memory, loc[p].id)
            /\ Goto(p, "done", [loc[p] EXCEPT !.result = "ok", !.ret = loc[p].id,
                       !.nDeleted = IF loc[p].id \in DOMAIN memory THEN 1 ELSE 0])
            /\ UNCHANGED <<timeline, blobs, nextTid, nextMid, nextKey>>

(* ------------------------ TimelineService.delete ----------------------- *)
\* a delete that goes from the check straight to the timeline row
TimelineDelete_Check_NoCascade(p) ==
  /\ Begin(p)
  /\ \E id \in 0..(nextTid - 1), fault \in BOOLEAN :
       LET l == [InitLoc EXCEPT !.kind = "timeline.delete", !.id = id]
       IN  IF fault
           THEN FinishDbError(p, l, "Failed to check timeline memories")
           ELSE Goto(p, "td_row",
                     [l EXCEPT !.seen = IF MemoriesOf(memory, id) # {}
                                        THEN "some" ELSE "none"])
  /\ UNCHANGED store

\* delete(id) up to its first round trip, the check for memories:
\* .from('memory').select('id').eq('timeline_id', id).limit(1)
TimelineDelete_Check(p) ==
  /\ Begin(p)
  /\ \E id \in 0..(nextTid - 1), fault \in BOOLEAN :
       LET l == [InitLoc EXCEPT !.kind = "timeline.delete", !.id = id]
       IN  IF fault
           THEN FinishDbError(p, l, "Failed to check timeline memories")
           ELSE IF MemoriesOf(memory, id) # {}
                THEN Goto(p, "td_list", [l EXCEPT !.seen = "some"])
                ELSE Goto(p, "td_row", [l EXCEPT !.seen = "none"])
  /\ UNCHANGED store

\* head of the for loop of deleteByTimelineId: on to the first round trip of
\* the next listed row (cur, with image_key old), or past the loop
ForNext(p, l) ==
  IF l.todo = {}
  THEN Goto(p, "td_row", [l EXCEPT !.cur = NoId, !.old = NoKey])
  ELSE \E e \in l.todo :
         Goto(p, IF e[2] # NoKey THEN "td_remove" ELSE "td_mrow",
              [l EXCEPT !.todo = @ \ {e}, !.cur = e[1], !.old = e[2]])

\* deleteByTimelineId: .select('id, image_key').eq('timeline_id', timelineId)
DeleteByTimelineId_List(p) ==
  /\ Resume(p, "td_list")
  /\ \E fault \in BOOLEAN :
       IF fault
       THEN FinishDbError(p, loc[p], "Failed to fetch memories by timeline")
       ELSE ForNext(p, [loc[p] EXCEPT !.cascade = TRUE,
                          !.listed = MemoriesOf(memory, loc[p].id),
                          !.todo = {<<m, memory[m].image_key>> :
                                      m \in MemoriesOf(memory, loc[p].id)}])
  /\ UNCHANGED store

\* storage.remove([memory.image_key]); a storage error is logged
DeleteByTimelineId_Remove(p) ==
  Resume(p, "td_remove") /\ RemoveThenGoto(p, loc[p], "td_mrow")

\* a loop whose row deletion throws its error
DeleteByTimelineId_Row_Throws(p) ==
  /\ Resume(p, "td_mrow")
  /\ \E deleteError \in BOOLEAN :
       IF deleteError
       THEN /\ FinishDbError(p, [loc[p] EXCEPT !.rowFail = TRUE,
                                               !.tried = @ \cup {loc[p].cur}],
                             "Failed to delete memory")
            /\ memory' = memory
       ELSE /\ ForNext(p, [loc[p] EXCEPT !.tried = @ \cup {loc[p].cur},
                             !.nDeleted =
                               IF loc[p].cur \in DOMAIN memory THEN @ + 1 ELSE @])
            /\ memory' = DropRow(memory, loc[p].cur)
  /\ UNCHANGED <<timeline, blobs, nextTid, nextMid, nextKey>>

\* .from('memory').delete().eq('id', memory.id); its error is logged
DeleteByTimelineId_Row(p) ==
  /\ Resume(p, "td_mrow")
  /\ \E deleteError \in BOOLEAN :
       IF deleteError
       THEN /\ ForNext(p, [loc[p] EXCEPT !.rowFail = TRUE,
                                          !.tried = @ \cup {loc[p].cur}])
            /\ memory' = memory
       ELSE /\ ForNext(p, [loc[p] EXCEPT !.tried = @ \cup {loc[p].cur},
                             !.nDeleted =
                               IF loc[p].cur \in DOMAIN memory THEN @ + 1 ELSE @])
            /\ memory' = DropRow(memory, loc[p].cur)
  /\ UNCHANGED <<timeline, blobs, nextTid, nextMid, nextKey>>

\* .from('timeline').delete().eq('id', id)
TimelineDelete_Row(p) ==
  /\ Resume(p, "td_row")
  /\ \E fault \in BOOLEAN :
       IF fault \/ ~FkNoChildren(memory, loc[p].id)
       THEN /\ FinishDbError(p, loc[p], "Failed to delete timeline")
            /\ UNCHANGED store
       ELSE /\ timeline' = DropRow(timeline, loc[p].id)
            /\ Goto(p, "done", [loc[p] EXCEPT !.result = "ok", !.ret = loc[p].id])
            /\ UNCHANGED <<memory, blobs, nextTid, nextMid, nextKey>>

(* ------------- TimelineService.delete, protect-on-delete --------------- *)
\* the error thrown when the check returns a row
CannotDelete ==
  "Cannot delete timeline with existing memories. Please delete all memories first."

\* a check that does not look at the rows it selected
TimelineDeleteProtect_Check_Unguarded(p) ==
  /\ Begin(p)
  /\ \E id \in 0..(nextTid - 1), fault \in BOOLEAN :
       LET l == [InitLoc EXCEPT !.kind = "timeline.delete.protect", !.id = id]
       IN  IF fault
           THEN FinishDbError(p, l, "Failed to check timeline memories")
           ELSE Goto(p, "tp_row",
                     [l EXCEPT !.seen = IF MemoriesOf(memory, id) # {}
                                        THEN "some" ELSE "none"])
  /\ UNCHANGED store

\* delete(id) through its check .select('id').eq('timeline_id', id).limit(1):
\* a returned row makes it throw, no row takes it on to the row deletion
TimelineDeleteProtect_Check(p) ==
  /\ Begin(p)
  /\ \E id \in 0..(nextTid - 1), fault \in BOOLEAN :
       LET l == [InitLoc EXCEPT !.kind = "timeline.delete.protect", !.id = id]
       IN  IF fault
           THEN FinishDbError(p, l, "Failed to check timeline memories")
           ELSE IF MemoriesOf(memory, id) # {}
                THEN Finish(p, [l EXCEPT !.seen = "some"], CannotDelete)
                ELSE Goto(p, "tp_row", [l EXCEPT !.seen = "none"])
  /\ UNCHANGED store

\* .from('timeline').delete().eq('id', id)
TimelineDeleteProtect_Row(p) ==
  /\ Resume(p, "tp_row")
  /\ \E fault \in BOOLEAN :
       IF fault \/ ~FkNoChildren(memory, loc[p].id)
       THEN /\ FinishDbError(p, loc[p], "Failed to delete timeline")
            /\ UNCHANGED store
       ELSE /\ timeline' = DropRow(timeline, loc[p].id)
            /\ Goto(p, "done", [loc[p] EXCEPT !.result = "ok", !.ret = loc[p].id])
            /\ UNCHANGED <<memory, blobs, nextTid, nextMid, nextKey>>

(* ------------------ TimelineService.getAllWithMemoryCounts ------------- *)
RECURSIVE CountFold_Presence(_, _, _)
\* a fold that records presence instead of counting: countMap.set(id, 1)
CountFold_Presence(mrows, ms, countMap) ==
  IF ms = {} THEN countMap
  ELSE LET m == CHOOSE x \in ms : TRUE
       IN  CountFold_Presence(mrows, ms \ {m}, PutRow(countMap, mrows[m].timeline_id, 1))

RECURSIVE CountFold(_, _, _)
\* memoryCounts.forEach(memory => countMap.set(memory.timeline_id,
\*   (countMap.get(memory.timeline_id) || 0) + 1))
CountFold(mrows, ms, countMap) ==
  IF ms = {} THEN countMap
  ELSE LET m == CHOOSE x \in ms : TRUE
           tid == mrows[m].timeline_id
           count == IF tid \in DOMAIN countMap THEN countMap[tid] ELSE 0
       IN  CountFold(mrows, ms \ {m}, PutRow(countMap, tid, count + 1))

\* the set of the elements of a sequence
Range(seq) == {seq[i] : i \in 1..Len(seq)}

\* the page query of getAllWithMemoryCounts, common to both variants; an
\* empty page returns [] at once
FetchTimelinePage(p, kind, at) ==
  /\ \E limit \in Limits, offset \in Offsets, fault \in BOOLEAN :
       LET l == [InitLoc EXCEPT !.kind = kind, !.limit = limit, !.offset = offset]
           timelines == PageWindow(TimelinesNewestFirst(timeline), limit, offset)
       IN  IF fault THEN FinishDbError(p, l, "Failed to fetch timelines")
           ELSE IF timelines = << >> THEN Goto(p, "done", [l EXCEPT !.result = "ok"])
           ELSE Goto(p, at, [l EXCEPT !.page = timelines, !.todo = Range(timelines)])
  /\ UNCHANGED store

\* getAllWithMemoryCounts (batched) up to its first round trip
GetAllWithMemoryCounts_Timelines(p) ==
  Begin(p) /\ FetchTimelinePage(p, "timeline.getAllWithMemoryCounts", "gc_counts")

\* .from('memory').select('timeline_id').in('timeline_id', timelineIds), the
\* fold into countMap and the merge `countMap.get(timeline.id) || 0`
GetAllWithMemoryCounts_Counts(p) ==
  /\ Resume(p, "gc_counts")
  /\ \E fault \in BOOLEAN :
       LET l == [loc[p] EXCEPT !.nq = @ + 1, !.todo = {}]
           countMap == CountFold(memory, MemoriesIn(memory, Range(l.page)), << >>)
       IN  IF fault THEN FinishDbError(p, l, "Failed to fetch memory counts")
           ELSE Goto(p, "done",
                     [l EXCEPT !.result = "ok",
                               !.counts = [t \in Range(l.page) |->
                                  IF t \in DOMAIN countMap THEN countMap[t] ELSE 0]])
  /\ UNCHANGED store

\* getAllWithMemoryCounts (per-row variant) up to its first round trip
GetAllWithMemoryCountsPerRow_Timelines(p) ==
  Begin(p) /\ FetchTimelinePage(p, "timeline.getAllWithMemoryCounts.perRow", "gr_count")

\* one of the count queries of Promise.all: .select('*', {count: 'exact',
\* head: true}).eq('timeline_id', timeline.id); its error is not inspected
\* and `count || 0` is then 0
GetAllWithMemoryCountsPerRow_Count(p) ==
  /\ Resume(p, "gr_count")
  /\ \E t \in loc[p].todo, fault \in BOOLEAN :
       LET count == IF fault THEN 0 ELSE Cardinality(MemoriesOf(memory, t))
           l == [loc[p] EXCEPT !.nq = @ + 1, !.todo = @ \ {t},
                               !.counts = PutRow(@, t, count),
                               !.countErr = @ \/ fault]
       IN  IF l.todo = {} THEN Goto(p, "done", [l EXCEPT !.result = "ok"])
           ELSE Goto(p, "gr_count", l)
  /\ UNCHANGED store

(* --------------------- MemoryService.getByTimelineId -------------------- *)
\* .eq('timeline_id', timelineId).order('date_of_event', {ascending: false})
\* with the pagination options: one round trip
GetByTimelineId(p) ==
  /\ Begin(p)
  /\ \E tid \in 0..(nextTid - 1), limit \in Limits, offset \in Offsets, fault \in BOOLEAN :
       LET l == [InitLoc EXCEPT !.kind = "memory.getByTimelineId", !.tid = tid,
                                !.limit = limit, !.offset = offset]
           ms == MemoriesOf(memory, tid)
           sorted == OrderDesc(ms, [m \in ms |-> memory[m].date_of_event])
       IN  IF fault THEN FinishDbError(p, l, "Failed to fetch memories for timeline")
           ELSE Goto(p, "done", [l EXCEPT !.result = "ok",
                                          !.page = PageWindow(sorted, limit, offset)])
  /\ UNCHANGED store

(* ------------------------ access credentials --------------------------- *)
\* createClient(..., {global: {headers: accessToken ? {Authorization:
\* `Bearer ${accessToken}`} : {}}}): the token the client attaches to a call
ClientBearer(accessToken) == IF accessToken # NoToken THEN accessToken ELSE NoToken

\* const memoryService = new MemoryService() at module level of the memory router
memoryService == ClientBearer(NoToken)

\* the procedures of the routers
TimelineProcedures ==
  {"getAll", "getById", "getBySlug", "create", "update", "delete", "getCount",
   "getWithMemories", "getWithMemoryCount", "getAllWithMemoryCounts"}
MemoryProcedures ==
  {"getAll", "getById", "getByTimelineId", "create", "update", "delete",
   "getCountByTimelineId"}

\* a request with createContext's accessToken served by slot p: the calls of
\* its services carry `bearers`
Serve(p, via, procName, accessToken, bearers) ==
  /\ Goto(p, "done", [InitLoc EXCEPT !.kind = procName, !.via = via, !.result = "ok",
                                     !.caller = accessToken, !.bearers = bearers])
  /\ UNCHANGED store

\* timelineRouter: new TimelineService(ctx.accessToken) in every procedure;
\* getWithMemories adds new MemoryService(ctx.accessToken), delete builds
\* new MemoryService(this.accessToken) for the cascade
TimelineRouter_Call(p) ==
  /\ Begin(p)
  /\ \E accessToken \in Tokens \cup {NoToken}, procName \in TimelineProcedures :
       LET timelineService == ClientBearer(accessToken)
           inner == IF procName \in {"getWithMemories", "delete"}
                    THEN {ClientBearer(accessToken)} ELSE {}
       IN  Serve(p, "timelineRouter", procName, accessToken, {timelineService} \cup inner)

\* memoryRouter: every procedure calls the module-level memoryService
MemoryRouter_Call(p) ==
  /\ Begin(p)
  /\ \E accessToken \in Tokens \cup {NoToken}, procName \in MemoryProcedures :
       Serve(p, "memoryRouter", procName, accessToken, {memoryService})

\* the upload endpoint: const uploadService = new UploadService()
UploadHandler_Call(p) ==
  /\ Begin(p)
  /\ \E accessToken \in Tokens \cup {NoToken} :
       Serve(p, "upload", "upload", accessToken, {ClientBearer(NoToken)})

(* ----------------------- generateSlug on its own ----------------------- *)
\* generateSlug(name) applied to the name held by the slot
GenerateSlug_Apply(p) ==
  /\ pc[p] = "idle" /\ loc[p].kind = "generateSlug"
  /\ Goto(p, "done", [loc[p] EXCEPT !.slug = generateSlug(loc[p].name), !.result = "ok"])
  /\ UNCHANGED <<store, started>>

Next ==
  \/ Upload
  \/ \E p \in Procs :
       \/ TimelineCreate_Start(p)
       \/ TimelineCreate_Probe(p)
       \/ TimelineCreate_Insert(p)
       \/ TimelineUpdate_Start(p)
       \/ TimelineUpdate_Write(p)
       \/ TimelineDelete_Check(p)
       \/ DeleteByTimelineId_List(p)
       \/ DeleteByTimelineId_Remove(p)
       \/ DeleteByTimelineId_Row(p)
       \/ TimelineDelete_Row(p)
       \/ MemoryCreate(p)
       \/ MemoryUpdate_Start(p)
       \/ MemoryUpdate_Remove(p)
       \/ MemoryUpdate_Write(p)
       \/ MemoryDelete_Fetch(p)
       \/ MemoryDelete_Remove(p)
       \/ MemoryDelete_Row(p)

Spec == Init /\ [][Next]_vars

(* --------------- the counting reads beside concurrent creates ----------- *)
NextCounts ==
  \E p \in Procs :
    \/ TimelineCreate_Start(p)
    \/ TimelineCreate_Probe(p)
    \/ TimelineCreate_Insert(p)
    \/ MemoryCreate(p)
    \/ GetAllWithMemoryCounts_Timelines(p)
    \/ GetAllWithMemoryCounts_Counts(p)
    \/ GetAllWithMemoryCountsPerRow_Timelines(p)
    \/ GetAllWithMemoryCountsPerRow_Count(p)

SpecCounts == Init /\ [][NextCounts]_vars

(* ------------------ timeline requests, one at a time ------------------- *)
\* a caller that awaits each response before the next request
Sequential == {1}

NextSeq ==
  \E p \in Sequential :
    \/ TimelineCreate_Start(p)
    \/ TimelineCreate_Probe(p)
    \/ TimelineCreate_Insert(p)
    \/ TimelineUpdate_Start(p)
    \/ TimelineUpdate_Write(p)
    \/ TimelineDelete_Check(p)
    \/ TimelineDelete_Row(p)

SpecSeq == Init /\ [][NextSeq]_vars

(* -------------- the service with the protect-on-delete delete ---------- *)
NextProtect ==
  \/ Upload
  \/ \E p \in Procs :
       \/ TimelineCreate_Start(p)
       \/ TimelineCreate_Probe(p)
       \/ TimelineCreate_Insert(p)
       \/ MemoryCreate(p)
       \/ MemoryDelete_Fetch(p)
       \/ MemoryDelete_Remove(p)
       \/ MemoryDelete_Row(p)
       \/ TimelineDeleteProtect_Check(p)
       \/ TimelineDeleteProtect_Row(p)

SpecProtect == Init /\ [][NextProtect]_vars

(* ------- concurrent timeline creates and updates, fairly scheduled ------ *)
NextTimelines ==
  \E p \in Procs :
    \/ TimelineCreate_Start(p)
    \/ TimelineCreate_Probe(p)
    \/ TimelineCreate_Insert(p)
    \/ TimelineUpdate_Start(p)
    \/ TimelineUpdate_Write(p)

\* the store answers every probe and the event loop resumes the awaiting
\* request: a pending probe step is eventually taken
SpecTimelinesFair ==
  /\ Init /\ [][NextTimelines]_vars
  /\ \A p \in Procs : WF_vars(TimelineCreate_Probe(p))

(* ----------------------- generateSlug on its own ----------------------- *)
InitSlug ==
  /\ timeline = << >> /\ memory = << >> /\ blobs = {}
  /\ nextTid = 1 /\ nextMid = 1 /\ nextKey = 1
  /\ started = 0
  /\ pc = [p \in Procs |-> "idle"]
  /\ \E n \in NameInputs :
       loc = [p \in Procs |-> [InitLoc EXCEPT !.kind = "generateSlug", !.name = n]]

NextSlug == \E p \in Procs : GenerateSlug_Apply(p)

SpecSlug == InitSlug /\ [][NextSlug]_vars

(* --------------------- paging through one timeline --------------------- *)
\* one timeline with up to MaxRows memories; their dates repeat any pattern
\* of MaxDated dates
InitPage ==
  /\ timeline = PutRow(<< >>, 1, [name |-> <<"a">>, slug |-> <<"a">>, description |-> 1])
  /\ \E n \in 0..MaxRows : \E d \in [1..MaxDated -> Dates] :
       /\ memory = [m \in 1..n |-> [timeline_id |-> 1, image_key |-> NoKey,
                                    date_of_event |-> d[((m - 1) % MaxDated) + 1]]]
       /\ nextMid = n + 1
  /\ blobs = {}
  /\ nextTid = 2 /\ nextKey = 1
  /\ started = 0
  /\ pc = [p \in Procs |-> "idle"]
  /\ loc = [p \in Procs |-> InitLoc]

NextPage == \E p \in Procs : GetByTimelineId(p)

SpecPage == InitPage /\ [][NextPage]_vars

(* ---------------- updates of rows that carry their timestamps ---------- *)
\* values of now() at the inserts that created the rows
Stamps == {1, 2}

\* created_at and updated_at of a row as its insert left them: both columns
\* are NOT NULL DEFAULT now() and the insert supplies neither
Stamped(row, now) ==
  [c \in DOMAIN row \cup {"created_at", "updated_at"} |->
     IF c \in {"created_at", "updated_at"} THEN now ELSE row[c]]

\* two timelines and a memory of the first one, each as its insert left it,
\* and two stored images
InitClock ==
  /\ \E a, b \in Stamps :
       timeline = <<Stamped([name |-> <<"a">>, slug |-> <<"a">>, description |-> 1], a),
                    Stamped([name |-> <<"b">>, slug |-> <<"b">>, description |-> 1], b)>>
  /\ \E c \in Stamps, k \in {NoKey, 1} :
       memory = <<Stamped([timeline_id |-> 1, image_key |-> k], c)>>
  /\ blobs = {1, 2}
  /\ nextTid = 3 /\ nextMid = 2 /\ nextKey = 3
  /\ started = 0
  /\ pc = [p \in Procs |-> "idle"]
  /\ loc = [p \in Procs |-> InitLoc]

NextClock ==
  \E p \in Procs :
    \/ TimelineUpdate_Start(p)
    \/ TimelineUpdate_Write(p)
    \/ MemoryUpdate_Start(p)
    \/ MemoryUpdate_Remove(p)
    \/ MemoryUpdate_Write(p)

SpecClock == InitClock /\ [][NextClock]_vars

(* ------------------ a memory created and fetched again ---------------- *)
\* image_url values: one that z.string().url() accepts and one it rejects
Urls == {"https://cdn.example/a.png", "a.png"}
ValidUrl(u) == u = "https://cdn.example/a.png"

\* the objects callers pass to create: every field of CreateMemoryInput
CreateMemoryInputs ==
  [ name : {<< >>, <<"a">>}, description : {<<"d">>}, image_url : Urls,
    image_key : {1}, date_of_event : Dates, timeline_id : {1, 2} ]

\* the keys of createMemorySchema
CreateMemorySchemaKeys ==
  {"name", "description", "image_url", "date_of_event", "timeline_id"}

\* createMemorySchema accepts the input: min(1) strings, a URL (timeline ids
\* of the model are all well-formed uuids)
createMemorySchemaAccepts(input) ==
  /\ Len(input.name) >= 1 /\ Len(input.description) >= 1
  /\ ValidUrl(input.image_url)

\* createMemorySchema.parse(input): z.object keeps the keys of the schema
\* and strips every other key of the input
createMemorySchema(input) ==
  [k \in DOMAIN input \cap CreateMemorySchemaKeys |-> input[k]]

\* input.<k> of an object: undefined (stored as NULL) when the key is missing
Field(obj, k, null) == IF k \in DOMAIN obj THEN obj[k] ELSE null

\* MemoryService.create(input): .insert({name, description, image_url,
\* image_key, date_of_event, timeline_id}).select().single(); the caller
\* then goes on to fetch the row it got back
InsertMemory(p, l, input) ==
  \E fault \in BOOLEAN :
    IF fault \/ ~FkParentOk(timeline, input.timeline_id)
    THEN /\ FinishDbError(p, l, "Failed to create memory")
         /\ UNCHANGED store
    ELSE /\ memory' = PutRow(memory, nextMid,
                [ name |-> input.name, description |-> input.description,
                  image_url |-> input.image_url,
                  image_key |-> Field(input, "image_key", NoKey),
                  date_of_event |-> input.date_of_event,
                  timeline_id |-> input.timeline_id ])
         /\ nextMid' = nextMid + 1
         /\ Goto(p, "rt_fetch", [l EXCEPT !.ret = nextMid])
         /\ UNCHANGED <<timeline, blobs, nextTid, nextKey>>

\* memoryRouter.create: procedure.input(createMemorySchema).mutation(
\* ({input}) => memoryService.create(input))
MemoryRouter_Create(p) ==
  /\ Begin(p)
  /\ \E input \in CreateMemoryInputs :
       LET l == [InitLoc EXCEPT !.kind = "memory.create.getById",
                                !.via = "memoryRouter", !.input = input]
       IN  IF ~createMemorySchemaAccepts(input)
           THEN Finish(p, l, "BAD_REQUEST") /\ UNCHANGED store
           ELSE InsertMemory(p, l, createMemorySchema(input))

\* MemoryService.create called with the caller's object as it is
MemoryService_Create(p) ==
  /\ Begin(p)
  /\ \E input \in CreateMemoryInputs :
       InsertMemory(p, [InitLoc EXCEPT !.kind = "memory.create.getById",
                                       !.via = "service", !.input = input], input)

\* getById(id) of the created row: .select('*').eq('id', id).single()
MemoryGetById(p) ==
  /\ Resume(p, "rt_fetch")
  /\ \E fault \in BOOLEAN :
       IF fault \/ ~FetchSingleOk(memory, loc[p].ret)
       THEN FinishDbError(p, loc[p], "Failed to fetch memory")
       ELSE Goto(p, "done", [loc[p] EXCEPT !.result = "ok", !.row = memory[loc[p].ret]])
  /\ UNCHANGED store

\* one timeline, no memory yet, two stored images
InitRoundTrip ==
  /\ timeline = PutRow(<< >>, 1, [name |-> <<"a">>, slug |-> <<"a">>, description |-> 1])
  /\ memory = << >>
  /\ blobs = {1, 2}
  /\ nextTid = 2 /\ nextMid = 1 /\ nextKey = 3
  /\ started = 0
  /\ pc = [p \in Procs |-> "idle"]
  /\ loc = [p \in Procs |-> InitLoc]

\* the caller awaits the created row before it fetches it, and the fetched
\* row before its next create
NextRoundTrip ==
  \E p \in Sequential :
    \/ MemoryRouter_Create(p)
    \/ MemoryService_Create(p)
    \/ MemoryGetById(p)

SpecRoundTrip == InitRoundTrip /\ [][NextRoundTrip]_vars

(* -------------------- UploadService.generateFilePath ------------------- *)
\* the characters of file names: letters of both cases, the dot, the path
\* separator and a blank
FileNameChars == {"a", "B", ".", "/", " "}
FileNames == UNION {[1..n -> FileNameChars] : n \in 0..MaxFileNameLen}

\* values of Date.now()
Timestamps == {7, 12}
\* values of Math.random().toString(36).substring(2, 15): digits and
\* lower-case letters
RandomStrings == {<<"k", "3">>, <<"0", "z", "a">>}

\* fileName.split('.').pop(): what follows the last dot, the whole name when
\* it has no dot
Extension(fileName) ==
  LET dots == {i \in 1..Len(fileName) : fileName[i] = "."}
  IN  IF dots = {} THEN fileName
      ELSE SubSeq(fileName, (CHOOSE i \in dots : \A j \in dots : j <= i) + 1,
                  Len(fileName))

\* str.replace(pattern, '') with a string pattern: the first occurrence of
\* the pattern is cut out, a string without it stays as it is
ReplaceFirst(str, pattern) ==
  LET at == {i \in 1..(Len(str) - Len(pattern) + 1) :
               SubSeq(str, i, i + Len(pattern) - 1) = pattern}
  IN  IF at = {} THEN str
      ELSE LET i == CHOOSE x \in at : \A y \in at : x <= y
           IN  SubSeq(str, 1, i - 1) \o SubSeq(str, i + Len(pattern), Len(str))

\* .replace(/[^a-z0-9]/gi, '-').toLowerCase()
Sanitize(str) ==
  [i \in 1..Len(str) |->
     IF IsAlnum(toLowerCase(str[i])) THEN toLowerCase(str[i]) ELSE "-"]

\* generateFilePath(fileName) at time `timestamp` with the given random string
generateFilePath(fileName, timestamp, randomString) ==
  LET extension == Extension(fileName)
      baseName == Sanitize(ReplaceFirst(fileName, <<".">> \o extension))
  IN  IntToStr(timestamp) \o <<"-">> \o randomString \o <<"-">> \o baseName
        \o <<".">> \o extension

\* generateFilePath applied to the file name held by the slot
GenerateFilePath_Apply(p) ==
  /\ pc[p] = "idle" /\ loc[p].kind = "generateFilePath"
  /\ \E timestamp \in Timestamps, randomString \in RandomStrings :
       Goto(p, "done", [loc[p] EXCEPT !.now = timestamp, !.rand = randomString,
              !.path = generateFilePath(loc[p].name, timestamp, randomString),
              !.result = "ok"])
  /\ UNCHANGED <<store, started>>

InitFilePath ==
  /\ timeline = << >> /\ memory = << >> /\ blobs = {}
  /\ nextTid = 1 /\ nextMid = 1 /\ nextKey = 1
  /\ started = 0
  /\ pc = [p \in Procs |-> "idle"]
  /\ \E n \in FileNames :
       loc = [p \in Procs |-> [InitLoc EXCEPT !.kind = "generateFilePath", !.name = n]]

NextFilePath == \E p \in Procs : GenerateFilePath_Apply(p)

SpecFilePath == InitFilePath /\ [][NextFilePath]_vars

(* ---------------- UploadService.upload and .delete --------------------- *)
\* paths and URLs are sequences of pieces; no piece is part of another one
\* and no two pieces put together make up a third
BucketPrefix == "memory-images/"
PublicObjectRoute == "/storage/v1/object/public/"

\* values of NEXT_PUBLIC_SUPABASE_URL: a hosted project and a local stack
SupabaseUrls == { <<"https://abc.", "supabase", ".co">>, <<"http://localhost:54321">> }

\* keys callers store objects under (options.filePath or a generated path)
StoredKeys ==
  { <<"7-k3-a", ".png">>, <<"7-k3-", "supabase", ".png">>,
    <<"memory-images/", "7-k3-a", ".png">> }

\* path.includes('supabase')
IncludesSupabase(path) == \E i \in 1..Len(path) : path[i] = "supabase"

\* path.split(`${BUCKET_NAME}/`)[1]: what lies between the first and the
\* second occurrence of the separator (or the end); undefined, rendered as
\* the empty string, when the separator does not occur
SplitSecond(path) ==
  LET seps == {i \in 1..Len(path) : path[i] = BucketPrefix}
  IN  IF seps = {} THEN << >>
      ELSE LET first == CHOOSE i \in seps : \A j \in seps : i <= j
               later == {j \in seps : j > first} \cup {Len(path) + 1}
               next == CHOOSE i \in later : \A j \in later : i <= j
           IN  SubSeq(path, first + 1, next - 1)

\* extractRelativePath(path): parts[1] || path for a path that includes
\* 'supabase', the path itself otherwise
extractRelativePath(path) ==
  IF IncludesSupabase(path)
  THEN IF SplitSecond(path) # << >> THEN SplitSecond(path) ELSE path
  ELSE path

\* storage.from(BUCKET_NAME).getPublicUrl(relativePath).data.publicUrl
StoragePublicUrl(supabaseUrl, relativePath) ==
  supabaseUrl \o <<PublicObjectRoute, BucketPrefix>> \o relativePath

\* getPublicUrl(filePath)
getPublicUrl(supabaseUrl, filePath) ==
  StoragePublicUrl(supabaseUrl, extractRelativePath(filePath))

\* a request served by a new UploadService: its client keeps the project URL
UploadLoc(p, kind) == [InitLoc EXCEPT !.kind = kind, !.host = loc[p].host]

\* upload(file, fileName, {filePath}): storage.upload(filePath, file, {upsert:
\* false}) refuses a path that is taken; the result carries getPublicUrl(path)
UploadService_Upload(p) ==
  /\ Begin(p)
  /\ \E filePath \in StoredKeys, fault \in BOOLEAN :
       LET l == [UploadLoc(p, "upload.upload") EXCEPT !.target = filePath]
       IN  IF fault \/ filePath \in blobs
           THEN /\ Finish(p, l, "Failed to upload file")
                /\ blobs' = blobs
           ELSE /\ blobs' = blobs \cup {filePath}
                /\ Goto(p, "done", [l EXCEPT !.result = "ok", !.path = filePath,
                           !.url = getPublicUrl(loc[p].host, filePath)])
  /\ UNCHANGED <<timeline, memory, nextTid, nextMid, nextKey>>

\* delete(filePath) for a stored key, called with the key or with the public
\* URL issued for it: storage.remove([extractRelativePath(filePath)])
UploadService_Delete(p) ==
  /\ Begin(p)
  /\ \E k \in blobs, byUrl \in BOOLEAN, fault \in BOOLEAN :
       LET filePath == IF byUrl THEN getPublicUrl(loc[p].host, k) ELSE k
           relativePath == extractRelativePath(filePath)
           l == [UploadLoc(p, "upload.delete") EXCEPT !.target = k, !.input = filePath]
       IN  IF fault
           THEN /\ Finish(p, l, "Failed to delete file")
                /\ blobs' = blobs
           ELSE /\ blobs' = StorageRemove(blobs, relativePath)
                /\ Goto(p, "done", [l EXCEPT !.result = "ok", !.path = relativePath])
  /\ UNCHANGED <<timeline, memory, nextTid, nextMid, nextKey>>

\* an empty bucket behind a client of either project URL
InitUpload ==
  /\ timeline = << >> /\ memory = << >> /\ blobs = {}
  /\ nextTid = 1 /\ nextMid = 1 /\ nextKey = 1
  /\ started = 0
  /\ pc = [p \in Procs |-> "idle"]
  /\ \E supabaseUrl \in SupabaseUrls :
       loc = [p \in Procs |-> [InitLoc EXCEPT !.host = supabaseUrl]]

NextUpload ==
  \E p \in Procs :
    \/ UploadService_Upload(p)
    \/ UploadService_Delete(p)

SpecUpload == InitUpload /\ [][NextUpload]_vars

(* --------------------------- the upload endpoint ----------------------- *)
\* formidable({maxFileSize: 10 * 1024 * 1024, ...})
maxFileSize == 10 * 1024 * 1024

\* content types of the part named file
MimeTypes == {"image/png", "image/jpeg", "text/html", "application/pdf"}
\* file.type.startsWith('image/'), the check of the client's validateImageFile
IsImageType(t) == t \in {"image/png", "image/jpeg"}

\* requests: the method, whether the form has a part named file, its size in
\* bytes and its content type
UploadRequests ==
  [ method : {"POST", "GET"}, hasFile : BOOLEAN,
    size : {1, maxFileSize, maxFileSize + 1}, mimetype : MimeTypes ]

\* the response of the handler
Respond(p, l, status) ==
  Goto(p, "done", [l EXCEPT !.status = status,
                            !.result = IF status = 200 THEN "ok" ELSE "error"])

\* handler(req, res): 405 unless POST; form.parse throws on a file larger than
\* maxFileSize (500); 400 without a file; otherwise uploadService.upload(
\* fileBuffer, file.originalFilename, {contentType: file.mimetype}), whose
\* error gives 500 and whose result gives 200
UploadHandler(p) ==
  /\ Begin(p)
  /\ \E req \in UploadRequests, fault \in BOOLEAN :
       LET l == [InitLoc EXCEPT !.kind = "upload.handler", !.via = "upload", !.input = req]
       IN  IF req.method # "POST"
           THEN Respond(p, l, 405) /\ UNCHANGED store
           ELSE IF req.hasFile /\ req.size > maxFileSize
           THEN Respond(p, l, 500) /\ UNCHANGED store
           ELSE IF ~req.hasFile
           THEN Respond(p, l, 400) /\ UNCHANGED store
           ELSE IF fault
           THEN Respond(p, [l EXCEPT !.called = TRUE], 500) /\ UNCHANGED store
           ELSE /\ blobs' = blobs \cup {nextKey}
                /\ nextKey' = nextKey + 1
                /\ Respond(p, [l EXCEPT !.called = TRUE, !.retKey = nextKey], 200)
                /\ UNCHANGED <<timeline, memory, nextTid, nextMid>>

NextEndpoint == \E p \in Procs : UploadHandler(p)

SpecEndpoint == Init /\ [][NextEndpoint]_vars

(* ------------- both getAllWithMemoryCounts on a store at rest ---------- *)
\* any store of up to MaxStoreTimelines timelines and MaxStoreMemories
\* memories, each memory under one of the timelines
InitReads ==
  /\ \E nt \in 0..MaxStoreTimelines :
       /\ timeline = [t \in 1..nt |->
                        [name |-> IntToStr(t), slug |-> IntToStr(t), description |-> 1]]
       /\ nextTid = nt + 1
       /\ \E nm \in 0..MaxStoreMemories : \E of \in [1..nm -> 1..nt] :
            /\ memory = [m \in 1..nm |-> [timeline_id |-> of[m], image_key |-> NoKey]]
            /\ nextMid = nm + 1
  /\ blobs = {} /\ nextKey = 1
  /\ started = 0
  /\ pc = [p \in Procs |-> "idle"]
  /\ loc = [p \in Procs |-> InitLoc]

\* a caller that puts the two variants side by side: the batched one in the
\* first slot, the per-row one in the other
NextReads ==
  \/ \E p \in Sequential :
       \/ GetAllWithMemoryCounts_Timelines(p)
       \/ GetAllWithMemoryCounts_Counts(p)
  \/ \E p \in Procs \ Sequential :
       \/ GetAllWithMemoryCountsPerRow_Timelines(p)
       \/ GetAllWithMemoryCountsPerRow_Count(p)

SpecReads == InitReads /\ [][NextReads]_vars

(* ------------------- requests through the entry points ----------------- *)
NextAuth ==
  \E p \in Procs :
    \/ TimelineRouter_Call(p)
    \/ MemoryRouter_Call(p)
    \/ UploadHandler_Call(p)

SpecAuth == Init /\ [][NextAuth]_vars

(* ============================== properties ============================= *)
Done(p, kind) == pc[p] = "done" /\ loc[p].kind = kind

\* C1: no two live timeline rows have the same slug, whatever creates,
\* updates and deletes ran and however they interleaved.
C1_SlugsDistinct ==
  \A a, b \in DOMAIN timeline : a # b => timeline[a].slug # timeline[b].slug

\* two live rows whose names reduce to one base slug
C1_Witness ==
  \E a, b \in DOMAIN timeline :
    a # b /\ generateSlug(timeline[a].name) = generateSlug(timeline[b].name)

\* C2: once TimelineService.delete(id) has returned success, the timeline
\* row is gone and no memory row references it, whether or not the blob
\* removals of the cascade succeeded.
C2_DeleteLeavesNoRows ==
  \A p \in Procs :
    Done(p, "timeline.delete") /\ loc[p].result = "ok" =>
      /\ ~FetchSingleOk(timeline, loc[p].id)
      /\ MemoriesOf(memory, loc[p].id) = {}

\* a successful delete that cascaded over a memory whose blob removal failed
C2_Witness ==
  \E p \in Procs :
    /\ Done(p, "timeline.delete") /\ loc[p].result = "ok"
    /\ loc[p].cascade /\ loc[p].stFail /\ loc[p].nDeleted >= 1

\* C3: every live memory row references a live timeline row.
C3_NoOrphanMemories ==
  \A m \in DOMAIN memory : memory[m].timeline_id \in DOMAIN timeline

\* a timeline delete was refused because a memory row still references it
C3_Witness ==
  \E p \in Procs :
    /\ Done(p, "timeline.delete") /\ loc[p].result = "Failed to delete timeline"
    /\ MemoriesOf(memory, loc[p].id) # {}
    /\ loc[p].id \in DOMAIN timeline

\* C4: the blob named by the image_key of every live memory row exists in
\* storage (also after an update or delete whose database step failed).
C4_ImageKeyNamesStoredBlob ==
  \A m \in DOMAIN memory :
    memory[m].image_key # NoKey => memory[m].image_key \in blobs

\* C5: MemoryService.update removes the old blob only after the row update
\* has succeeded.
C5_OldBlobRemovedAfterRowUpdate ==
  \A p \in Procs :
    loc[p].kind = "memory.update" /\ loc[p].removed # {} => loc[p].result = "ok"

\* C6: when the removal of the old blob fails, MemoryService.update goes on
\* to the row update; unless the database refuses that, it returns the
\* updated row, whose image_key is the new key.
C6_UpdateSurvivesStorageFailure ==
  \A p \in Procs :
    loc[p].kind = "memory.update" /\ loc[p].stFail =>
      /\ pc[p] \in {"mu_write", "done"}
      /\ pc[p] = "done" =>
           IF loc[p].dbErr
           THEN loc[p].result = "Failed to update memory"
           ELSE /\ loc[p].result = "ok"
                /\ loc[p].ret = loc[p].id
                /\ loc[p].retKey = loc[p].key

\* an update from key A to key B returned the row although removing A failed
C6_Witness ==
  \E p \in Procs :
    /\ Done(p, "memory.update") /\ loc[p].stFail /\ loc[p].result = "ok"
    /\ loc[p].old # NoKey /\ loc[p].old # loc[p].key /\ loc[p].retKey = loc[p].key
    /\ loc[p].old \in blobs

\* C7: when the removal of the image fails, MemoryService.delete goes on to
\* the row deletion; unless the database refuses that, the row is gone and
\* the call returns {success: true, id}.
C7_DeleteSurvivesStorageFailure ==
  \A p \in Procs :
    loc[p].kind = "memory.delete" /\ loc[p].stFail =>
      /\ pc[p] \in {"md_row", "done"}
      /\ pc[p] = "done" =>
           IF loc[p].dbErr
           THEN loc[p].result = "Failed to delete memory"
           ELSE /\ loc[p].result = "ok"
                /\ loc[p].ret = loc[p].id
                /\ loc[p].id \notin DOMAIN memory

\* a delete returned success although the removal of its image failed
C7_Witness ==
  \E p \in Procs :
    /\ Done(p, "memory.delete") /\ loc[p].stFail /\ loc[p].result = "ok"
    /\ loc[p].nDeleted = 1 /\ loc[p].old \in blobs

\* C8: MemoryService.delete(id) for an id without a live row throws and
\* changes nothing: it removes no blob and deletes no row.
C8_DeleteMissingFails ==
  \A p \in Procs :
    loc[p].kind = "memory.delete" /\ ~loc[p].found =>
      /\ pc[p] = "done"
      /\ loc[p].result = "Failed to fetch memory"
      /\ loc[p].removed = {} /\ loc[p].nDeleted = 0

\* a delete of an id without a row has failed while rows and blobs exist
C8_Witness ==
  \E p \in Procs :
    /\ Done(p, "memory.delete") /\ loc[p].result = "Failed to fetch memory"
    /\ ~loc[p].found /\ loc[p].id \notin DOMAIN memory
    /\ memory # << >> /\ blobs # {}

\* C9: timeline delete is atomic: while the timeline row is live none of its
\* memories has been deleted by the delete, and a failed delete has deleted
\* none.
C9_DeleteAtomic ==
  \A p \in Procs :
    loc[p].kind = "timeline.delete" =>
      /\ loc[p].id \in DOMAIN timeline => loc[p].nDeleted = 0
      /\ pc[p] = "done" /\ loc[p].result # "ok" => loc[p].nDeleted = 0

\* C10: an insert of TimelineService.create whose slug a live row already
\* carries fails and persists nothing, also when the probe saw the slug free.
C10_LosingInsertFails ==
  [][ \A p \in Procs :
        /\ pc[p] = "tc_insert" /\ pc'[p] = "done"
        /\ RowsWithSlug(timeline, loc[p].slug) # {}
        => /\ timeline' = timeline
           /\ loc'[p].result = "Failed to create timeline: duplicate key"
              \/ loc'[p].result = "Failed to create timeline" ]_vars

\* two concurrent creates probed one slug as free; one inserted, one failed
C10_Witness ==
  \E p, q \in Procs :
    /\ p # q /\ Done(p, "timeline.create") /\ Done(q, "timeline.create")
    /\ loc[p].probedFree /\ loc[q].probedFree /\ loc[p].slug = loc[q].slug
    /\ loc[p].result = "ok"
    /\ loc[q].result = "Failed to create timeline: duplicate key"
    /\ Cardinality(RowsWithSlug(timeline, loc[p].slug)) = 1

\* C11: a TimelineService.update(id, {slug: s}) whose last round trip is
\* issued while a different live timeline carries s fails (the pre-check
\* throws, or the store refuses the row update) and changes no timeline row.
C11_UpdateToHeldSlugFails ==
  [][ \A p \in Procs :
        /\ pc'[p] = "done" /\ loc'[p].kind = "timeline.update"
        /\ loc'[p].slug # Absent
        /\ pc[p] = "tu_write" \/ (CanStart(p) /\ started' = started + 1)
        /\ RowsWithSlug(timeline, loc'[p].slug) \ {loc'[p].id} # {}
        => /\ timeline' = timeline
           /\ loc'[p].result \in {"A timeline with this slug already exists",
                                  "Failed to update timeline: duplicate key",
                                  "Failed to update timeline"} ]_vars

\* an update of a live row to the slug of another live row was refused by
\* the pre-check; both rows are as they were
C11_Witness ==
  \E p \in Procs :
    /\ Done(p, "timeline.update")
    /\ loc[p].result = "A timeline with this slug already exists"
    /\ loc[p].id \in DOMAIN timeline
    /\ timeline[loc[p].id].slug # loc[p].slug
    /\ RowsWithSlug(timeline, loc[p].slug) \ {loc[p].id} # {}

\* C12: MemoryService.create with a timeline_id that names no live timeline
\* fails with an error and inserts no memory row.
C12_CreateForMissingTimelineFails ==
  [][ \A p \in Procs :
        /\ CanStart(p) /\ started' = started + 1
        /\ loc'[p].kind = "memory.create"
        /\ loc'[p].tid \notin DOMAIN timeline
        => /\ memory' = memory /\ nextMid' = nextMid
           /\ pc'[p] = "done"
           /\ loc'[p].result = "Failed to create memory" ]_vars

\* a create naming a timeline without a live row has failed while other
\* timelines are live
C12_Witness ==
  \E p \in Procs :
    /\ Done(p, "memory.create") /\ loc[p].result = "Failed to create memory"
    /\ loc[p].tid \notin DOMAIN timeline /\ timeline # << >>
    /\ loc[p].ret = NoId

\* C13: every getAllWithMemoryCounts call that returns has issued exactly
\* one query against the memory table, whatever the size of its page.
C13_ExactlyOneMemoryQuery ==
  \A p \in Procs :
    /\ pc[p] = "done" /\ loc[p].result = "ok"
    /\ loc[p].kind \in {"timeline.getAllWithMemoryCounts",
                        "timeline.getAllWithMemoryCounts.perRow"}
    => loc[p].nq = 1

\* C14: the batched getAllWithMemoryCounts returns, for every timeline of
\* its page, memory_count = the number of memory rows with that timeline_id
\* at the time of the count query (0 when there is none).
C14_CountsMatchRows ==
  [][ \A p \in Procs :
        pc[p] = "gc_counts" /\ pc'[p] = "done" /\ loc'[p].result = "ok" =>
          /\ DOMAIN loc'[p].counts = Range(loc[p].page)
          /\ \A t \in Range(loc[p].page) :
               loc'[p].counts[t] = Cardinality(MemoriesOf(memory, t)) ]_vars

\* a returned page with a timeline that has a memory and one that has none
C14_Witness ==
  \E p \in Procs :
    /\ Done(p, "timeline.getAllWithMemoryCounts") /\ loc[p].result = "ok"
    /\ \E t, u \in DOMAIN loc[p].counts :
         loc[p].counts[t] = 0 /\ loc[p].counts[u] >= 1

\* the pattern ^[a-z0-9]+(-[a-z0-9]+)*$
MatchesSlugPattern(s) ==
  /\ Len(s) >= 1
  /\ \A i \in 1..Len(s) : IsAlnum(s[i]) \/ s[i] = "-"
  /\ IsAlnum(s[1]) /\ IsAlnum(s[Len(s)])
  /\ \A i \in 1..(Len(s) - 1) : ~(s[i] = "-" /\ s[i + 1] = "-")

\* C15: generateSlug(name) returns a string that matches
\* ^[a-z0-9]+(-[a-z0-9]+)*$ (generateSlug has no throwing path, so every
\* call returns); it never returns the empty slug.
C15_SlugMatchesPattern ==
  \A p \in Procs : Done(p, "generateSlug") => MatchesSlugPattern(loc[p].slug)

\* the slug the claim C16 describes: base when no live row holds it, else
\* base-n for the smallest n >= 1 that no live row holds
FirstFreeSlug(rows, name) ==
  LET held(slug) == RowsWithSlug(rows, slug) # {}
      n == CHOOSE k \in 1..(Cardinality(DOMAIN rows) + 1) :
             /\ ~held(SuffixedSlug(name, k))
             /\ \A j \in 1..(k - 1) : held(SuffixedSlug(name, j))
  IN  IF ~held(generateSlug(name)) THEN generateSlug(name) ELSE SuffixedSlug(name, n)

C18_PageIsOffsetWindow ==
  \A p \in Procs :
    Done(p, "memory.getByTimelineId") /\ loc[p].result = "ok" =>
      LET ms == MemoriesOf(memory, loc[p].tid)
          page == loc[p].page
          rest == IF Cardinality(ms) > loc[p].offset
                  THEN Cardinality(ms) - loc[p].offset ELSE 0
          date(m) == memory[m].date_of_event
      IN  /\ Range(page) \subseteq ms
          /\ \A i, j \in 1..Len(page) :
               i < j => page[i] # page[j] /\ date(page[i]) >= date(page[j])
          /\ \A m \in ms \ Range(page) : \A i \in 1..Len(page) :
               date(m) >= date(page[1]) \/ date(m) <= date(page[i])
          /\ page # << >> =>
               /\ Cardinality({m \in ms : date(m) > date(page[1])}) <= loc[p].offset
               /\ Cardinality({m \in ms : date(m) >= date(page[1])}) > loc[p].offset
          /\ IF loc[p].limit = NoNum THEN Len(page) = rest
             ELSE Len(page) = (IF loc[p].limit < rest THEN loc[p].limit ELSE rest)

\* C19: every store call made for a request carries the access token that
\* the request carried, and no other.
C19_CallsCarryCallerToken ==
  \A p \in Procs :
    pc[p] = "done" /\ loc[p].via # "none" => loc[p].bearers = {loc[p].caller}

\* C20 (as claimed): the timeline_id of a live memory row never changes.
C20_TimelineIdNeverChanges ==
  [][ \A m \in DOMAIN memory \cap DOMAIN memory' :
        memory'[m].timeline_id = memory[m].timeline_id ]_vars

\* C20 (amended): the timeline_id of a live memory row changes only in the
\* row update of a successful MemoryService.update of that row whose input
\* supplies timeline_id; the new value is that input and names a live timeline.
C20_TimelineIdChangesOnlyByUpdate ==
  [][ \A m \in DOMAIN memory \cap DOMAIN memory' :
        memory'[m].timeline_id # memory[m].timeline_id =>
          /\ memory'[m].timeline_id \in DOMAIN timeline
          /\ \E p \in Procs :
               /\ pc'[p] = "done" /\ loc'[p].kind = "memory.update"
               /\ loc'[p].id = m /\ loc'[p].result = "ok"
               /\ loc'[p].tid = memory'[m].timeline_id ]_vars

\* a memory created under one timeline now belongs to another one, moved by
\* a successful update
C20_Witness ==
  \E p, q \in Procs :
    /\ Done(p, "memory.update") /\ loc[p].result = "ok" /\ loc[p].tid # AbsentId
    /\ Done(q, "memory.create") /\ loc[q].result = "ok" /\ loc[q].ret = loc[p].id
    /\ loc[q].tid # loc[p].tid
    /\ loc[p].id \in DOMAIN memory /\ memory[loc[p].id].timeline_id = loc[p].tid

\* C30: after two MemoryService.update calls on one memory that each supply
\* an image_key have both returned the row, the blob named by the image_key
\* of the row has been removed by neither of them.
C30_FinalKeyNotRemoved ==
  \A p, q \in Procs :
    /\ p # q /\ Done(p, "memory.update") /\ Done(q, "memory.update")
    /\ loc[p].id = loc[q].id /\ loc[p].key # NoKey /\ loc[q].key # NoKey
    /\ loc[p].result = "ok" /\ loc[q].result = "ok"
    /\ loc[p].id \in DOMAIN memory
    => memory[loc[p].id].image_key \notin (loc[p].removed \cup loc[q].removed)

\* the timeline row deletion of a delete call has been issued or is next
RowDeletionReached(p) ==
  /\ loc[p].kind = "timeline.delete"
  /\ \/ pc[p] = "td_row"
     \/ loc[p].result \in {"ok", "Failed to delete timeline"}

\* C28: within a cascade delete call the deletion of the timeline row is
\* reached only after the check for memories returned and, when the check
\* returned a memory, after deleteByTimelineId was invoked and ran its loop
\* to the end.
C28_RowDeletionAfterCascade ==
  \A p \in Procs :
    RowDeletionReached(p) =>
      /\ loc[p].seen # "unchecked"
      /\ loc[p].seen = "some" =>
            /\ loc[p].cascade
            /\ loc[p].todo = {} /\ loc[p].cur = NoId
      /\ loc[p].seen = "none" => ~loc[p].cascade

\* a delete found memories, deleted them through deleteByTimelineId and then
\* deleted the timeline row
C28_Witness ==
  \E p \in Procs :
    /\ Done(p, "timeline.delete") /\ loc[p].result = "ok"
    /\ loc[p].seen = "some" /\ loc[p].cascade /\ loc[p].nDeleted >= 1
    /\ loc[p].id \notin DOMAIN timeline

\* the loop of deleteByTimelineId is over: the call is past its last row
LoopOver(p) ==
  /\ loc[p].kind = "timeline.delete" /\ loc[p].cascade
  /\ pc[p] \notin {"td_remove", "td_mrow"}

\* C27: once the loop of deleteByTimelineId is over, a row deletion has
\* been issued for every memory its select listed, whatever blob removal or
\* row deletion failed on the way; while it runs, every listed memory is
\* done, in hand or still to come.
C27_EveryListedMemoryProcessed ==
  \A p \in Procs :
    /\ LoopOver(p) => loc[p].tried = loc[p].listed
    /\ loc[p].kind = "timeline.delete" /\ pc[p] \in {"td_remove", "td_mrow"} =>
         /\ loc[p].cur \in loc[p].listed \ loc[p].tried
         /\ loc[p].listed =
              loc[p].tried \cup {loc[p].cur} \cup {e[1] : e \in loc[p].todo}

\* a loop over two listed memories went to its end although a blob removal
\* and a row deletion failed
C27_Witness ==
  \E p \in Procs :
    /\ LoopOver(p) /\ Cardinality(loc[p].listed) >= 2
    /\ loc[p].stFail /\ loc[p].rowFail
    /\ loc[p].tried = loc[p].listed

\* C26: a protect-on-delete delete(id) whose check returns a memory of the
\* timeline throws 'Cannot delete timeline with existing memories. Please
\* delete all memories first.' and
\* changes no row; a timeline row leaves the table only by a delete whose
\* check returned no memory, and only while no memory references it.
C26_DeleteRefusedWhileMemoriesExist ==
  [][ /\ \A p \in Procs :
          /\ CanStart(p) /\ started' = started + 1
          /\ loc'[p].kind = "timeline.delete.protect" /\ ~loc'[p].dbErr
          => /\ loc'[p].seen = "some" <=> MemoriesOf(memory, loc'[p].id) # {}
             /\ loc'[p].seen = "some" =>
                   /\ pc'[p] = "done"
                   /\ loc'[p].result = CannotDelete
                   /\ timeline' = timeline /\ memory' = memory
      /\ \A t \in DOMAIN timeline \ DOMAIN timeline' :
          /\ MemoriesOf(memory, t) = {} /\ memory' = memory
          /\ \E p \in Procs :
               /\ loc[p].kind = "timeline.delete.protect" /\ pc[p] = "tp_row"
               /\ loc[p].id = t /\ loc[p].seen = "none"
               /\ pc'[p] = "done" /\ loc'[p].result = "ok"
    ]_vars

\* a delete was refused on a timeline that has a memory and left the
\* timeline and its memory in place
C26_Witness ==
  \E p \in Procs :
    /\ Done(p, "timeline.delete.protect") /\ loc[p].seen = "some"
    /\ loc[p].result = CannotDelete
    /\ loc[p].id \in DOMAIN timeline /\ MemoriesOf(memory, loc[p].id) # {}

\* this step is the one in which a call of the given kind by p returns its row
Returns(p, kind) ==
  /\ pc'[p] = "done" /\ loc'[p].kind = kind /\ loc'[p].result = "ok"
  /\ \/ pc[p] \notin {"idle", "done"}
     \/ CanStart(p) /\ started' = started + 1

\* updated_at moved forward and created_at stayed
Touched(before, after) ==
  /\ after.updated_at > before.updated_at
  /\ after.created_at = before.created_at
  /\ after.created_at <= after.updated_at

\* C21: every successful TimelineService.update or MemoryService.update
\* leaves the row with an updated_at later than the one it had, and with its
\* created_at unchanged, so that created_at <= updated_at.
C21_UpdateAdvancesUpdatedAt ==
  [][ \A p \in Procs :
        /\ Returns(p, "timeline.update") =>
             Touched(timeline[loc'[p].id], timeline'[loc'[p].id])
        /\ Returns(p, "memory.update") =>
             Touched(memory[loc'[p].id], memory'[loc'[p].id])
    ]_vars

\* C22: a memory created with name, description, image_url, image_key,
\* date_of_event and timeline_id through the create path and then fetched by
\* its id comes back equal to the caller's object on every one of these
\* fields, image_key included.
C22_CreateThenGetByIdReturnsInput ==
  \A p \in Procs :
    Done(p, "memory.create.getById") /\ loc[p].result = "ok" =>
      \A k \in DOMAIN loc[p].input : loc[p].row[k] = loc[p].input[k]

\* key is prefix-base.extension for a base over [a-z0-9] only
HasKeyForm(key, prefix) ==
  /\ Len(key) > Len(prefix) /\ SubSeq(key, 1, Len(prefix)) = prefix
  /\ \E dot \in (Len(prefix) + 1)..Len(key) :
       /\ key[dot] = "."
       /\ \A i \in (Len(prefix) + 1)..(dot - 1) : IsAlnum(key[i])

\* C24: the key generateFilePath returns has the form
\* {timestamp}-{random}-{base}.{extension}, its base has no character outside
\* [a-z0-9], and the key has no path separator.
C24_KeyIsSanitized ==
  \A p \in Procs :
    Done(p, "generateFilePath") =>
      /\ HasKeyForm(loc[p].path,
                    IntToStr(loc[p].now) \o <<"-">> \o loc[p].rand \o <<"-">>)
      /\ \A i \in 1..Len(loc[p].path) : loc[p].path[i] # "/"

\* C23: for every stored key k, UploadService.delete called with the public
\* URL issued for k removes the object that delete called with k removes.
C23_DeleteByUrlRemovesSameObject ==
  \A p \in Procs :
    /\ Done(p, "upload.delete") /\ loc[p].result = "ok"
    /\ loc[p].input = getPublicUrl(loc[p].host, loc[p].target)
    => loc[p].path = extractRelativePath(loc[p].target)

\* C25: the upload endpoint calls UploadService.upload only for a POST
\* request with a file of at most 10 MB whose content type is an image type;
\* every other request gets an error response and stores nothing.
C25_UploadOnlyForValidRequests ==
  \A p \in Procs :
    Done(p, "upload.handler") =>
      LET req == loc[p].input
          valid == /\ req.method = "POST" /\ req.hasFile
                   /\ req.size <= maxFileSize /\ IsImageType(req.mimetype)
      IN  /\ loc[p].called => valid
          /\ ~valid => loc[p].status # 200 /\ loc[p].retKey = NoKey

====
